---- MODULE Spec2Model ----
(***************************************************************************)
(* Model of HDF5-Aerospace-Calculations:                                   *)
(*   src/python/create_test_hdf5.py   blocked synthesis of the matrices    *)
(*   src/python/visualize_results.py  subsampling loader, report, modal    *)
(*                                    analysis and the main pipeline       *)
(*                                                                         *)
(* Four specifications share the module:                                   *)
(*   SpecLoad  one call of load_dataset_with_subsampling on a dataset      *)
(*   SpecGen   one run of create_test_hdf5                                 *)
(*   SpecResp  one call of plot_response_analysis on two vectors           *)
(*   Spec      one run of main() of visualize_results.py                   *)
(***************************************************************************)
EXTENDS Integers, Sequences, FiniteSets, TLC

VARIABLES
    \* ---- load_dataset_with_subsampling (SpecLoad)
    ld_pc,        \* "call" before the call, "returned" after it
    ld_file,      \* the entry of the file at dataset_path
    ld_max_size,  \* argument max_size
    ld_is_vector, \* argument is_vector
    ld_ret,       \* the returned value
    ld_out,       \* what the call printed
    \* ---- create_test_hdf5 (SpecGen)
    size,         \* argument size
    g_pc,         \* "stiff", "mass" or "done": the loop being executed
    g_i, g_j,     \* loop variables i and j (row and column offset of the block)
    stiff_dataset, \* dataset matrices/stiffness
    mass_dataset, \* dataset matrices/mass
    g_block,      \* shapes of the buffers allocated by the last step
    g_vectors,    \* lengths of the datasets vectors/force, results/displacement
    \* ---- main() of visualize_results.py (Spec)
    pc,           \* the stage main() is about to execute
    args,         \* the parsed command line
    scipy,        \* TRUE iff scipy could be imported (eigsh is not None)
    file,         \* the input file: its state and the dimension of each dataset
    data,         \* the dict returned by load_hdf5_data: key -> shape
    log,          \* the messages printed so far
    solver_in,    \* shapes of the K and M handed to eigsh, <<>> before the call
    \* ---- plot_response_analysis (SpecResp)
    r_pc,         \* "call" before the call, "returned" after it
    r_force,      \* argument force
    r_displacement, \* argument displacement
    r_ret         \* the arrays the call computed, or the exception it raised

ld_vars == <<ld_pc, ld_file, ld_max_size, ld_is_vector, ld_ret, ld_out>>
g_vars ==
    <<size, g_pc, g_i, g_j, stiff_dataset, mass_dataset, g_block, g_vectors>>
m_vars == <<pc, args, scipy, file, data, log, solver_in>>
r_vars == <<r_pc, r_force, r_displacement, r_ret>>
vars == <<ld_vars, g_vars, m_vars, r_vars>>

(***************************************************************************)
(* Bounds of the model.                                                    *)
(***************************************************************************)
MaxLen == 6      \* datasets handed to the loader have at most MaxLen rows/columns
MaxBudget == 7   \* max_size ranges over 1..MaxBudget

(***************************************************************************)
(* Arrays.  A vector of length n is a function on 0..n-1, a matrix of      *)
(* shape (n, m) a function on (0..n-1) \X (0..m-1).                        *)
(***************************************************************************)
None == [kind |-> "none"]

Idx(n) == 0 .. (n - 1)

\* An np.ndarray of the given shape and elements.
Array(shape, at) ==
    [kind |-> "array", rank |-> Len(shape), shape |-> shape, at |-> at]

\* Number of indices selected by the slice [::step] on an axis of length n
\* (start 0, stop n): 0, step, 2*step, ... below n.
SliceLen(n, step) == IF n > 0 THEN ((n - 1) \div step) + 1 ELSE 0

\* dataset[::step] : the leading axis is strided, a second axis is kept whole.
StridedRows(ds, step) ==
    LET rows == SliceLen(ds.shape[1], step)
    IN  IF ds.rank = 1
        THEN Array(<<rows>>, [k \in Idx(rows) |-> ds.at[k * step]])
        ELSE Array(<<rows, ds.shape[2]>>,
                   [p \in Idx(rows) \X Idx(ds.shape[2]) |->
                       ds.at[<<p[1] * step, p[2]>>]])

\* dataset[::step, ::step] : both axes strided by the same step.
StridedBoth(ds, step) ==
    LET rows == SliceLen(ds.shape[1], step)
        cols == SliceLen(ds.shape[2], step)
    IN  Array(<<rows, cols>>,
              [p \in Idx(rows) \X Idx(cols) |->
                  ds.at[<<p[1] * step, p[2] * step>>]])

\* dataset[:-1] : the dataset without its last row.
AllButLast(ds) ==
    LET rows == IF ds.shape[1] > 0 THEN ds.shape[1] - 1 ELSE 0
    IN  IF ds.rank = 1
        THEN Array(<<rows>>, [k \in Idx(rows) |-> ds.at[k]])
        ELSE Array(<<rows, ds.shape[2]>>,
                   [p \in Idx(rows) \X Idx(ds.shape[2]) |-> ds.at[p]])

\* dataset[:] : the whole dataset.
Whole(ds) == Array(ds.shape, ds.at)

(***************************************************************************)
(* load_dataset_with_subsampling (visualize_results.py 42-68).             *)
(* The value is [ret |-> returned value, out |-> printed messages].        *)
(***************************************************************************)
SubsampleStepCeil(n, max_size) == (n + max_size - 1) \div max_size

SubsampleStep(n, max_size) == n \div max_size

load_dataset_with_subsampling(entry, dataset_path, max_size, is_vector) ==
    IF entry.kind = "absent"
    THEN [ret |-> None, out |-> <<>>]
    ELSE IF entry.kind # "dataset"
    THEN [ret |-> None,
          out |-> << [msg |-> "not_a_dataset", path |-> dataset_path] >>]
    ELSE LET n == entry.shape[1]
         IN  IF n > max_size
             THEN LET step == SubsampleStep(n, max_size)
                      note == [msg |-> "subsampling", path |-> dataset_path,
                               from |-> n, to |-> max_size, step |-> step]
                  IN  IF is_vector
                      THEN [ret |-> StridedRows(entry, step), out |-> <<note>>]
                      ELSE [ret |-> StridedBoth(entry, step), out |-> <<note>>]
             ELSE [ret |-> Whole(entry), out |-> <<>>]

(***************************************************************************)
(* The entries a file can hold at a path.  Every element of a dataset      *)
(* carries its own index as value, so that any two elements differ and a   *)
(* returned element identifies the element of the file it was read from.   *)
(***************************************************************************)
LabelVec(n) ==
    [kind |-> "dataset", rank |-> 1, shape |-> <<n>>,
     at |-> [k \in Idx(n) |-> <<k>>]]

LabelMat(n, m) ==
    [kind |-> "dataset", rank |-> 2, shape |-> <<n, m>>,
     at |-> [p \in Idx(n) \X Idx(m) |-> p]]

Absent == [kind |-> "absent"]
Group == [kind |-> "group"]

VectorEntries == {LabelVec(n) : n \in 0 .. MaxLen}
MatrixEntries == {LabelMat(p[1], p[2]) : p \in (0 .. MaxLen) \X (0 .. MaxLen)}

(***************************************************************************)
(* SpecLoad: one call of the loader.  Vectors are loaded with              *)
(* is_vector=True and matrices with is_vector=False, as load_hdf5_data     *)
(* does (visualize_results.py 91-110).                                     *)
(***************************************************************************)
g_idle ==
    /\ size = 0 /\ g_pc = "idle" /\ g_i = 0 /\ g_j = 0
    /\ stiff_dataset = <<>> /\ mass_dataset = <<>>
    /\ g_block = <<>> /\ g_vectors = <<>>

m_idle ==
    /\ pc = "idle" /\ args = <<>> /\ scipy = FALSE /\ file = <<>>
    /\ data = <<>> /\ log = <<>> /\ solver_in = <<>>

r_idle ==
    /\ r_pc = "idle" /\ r_force = <<>> /\ r_displacement = <<>> /\ r_ret = <<>>

ld_idle ==
    /\ ld_pc = "idle" /\ ld_file = Absent /\ ld_max_size = 1
    /\ ld_is_vector = FALSE /\ ld_ret = None /\ ld_out = <<>>

InitLoad ==
    /\ ld_pc = "call"
    /\ ld_max_size \in 1 .. MaxBudget
    /\ \/ ld_is_vector = TRUE /\ ld_file \in VectorEntries \cup {Absent, Group}
       \/ ld_is_vector = FALSE /\ ld_file \in MatrixEntries \cup {Absent, Group}
    /\ ld_ret = None
    /\ ld_out = <<>>
    /\ g_idle
    /\ m_idle
    /\ r_idle

LoadCall ==
    /\ ld_pc = "call"
    /\ LET r == load_dataset_with_subsampling(ld_file, "dataset", ld_max_size,
                                               ld_is_vector)
       IN  /\ ld_ret' = r.ret
           /\ ld_out' = r.out
    /\ ld_pc' = "returned"
    /\ UNCHANGED <<ld_file, ld_max_size, ld_is_vector, g_vars, m_vars, r_vars>>

NextLoad == LoadCall

SpecLoad == InitLoad /\ [][NextLoad]_vars

(***************************************************************************)
(* Claims about the loader (checked under SpecLoad).                       *)
(***************************************************************************)
LoadedDataset == ld_pc = "returned" /\ ld_file.kind = "dataset"

\* ceil(n / d) for d >= 1
CeilDiv(n, d) == (n + d - 1) \div d

\* C1: when the leading dimension n exceeds max_size the loader uses
\* stride = n // max_size, which is >= 1; the result holds exactly the elements
\* original[k * stride] with k * stride < n (ceil(n / stride) of them), and for
\* a matrix the same stride is applied to both axes.
C1_StridedSubsample ==
    (LoadedDataset /\ ld_file.shape[1] > ld_max_size) =>
        LET n == ld_file.shape[1]
            stride == n \div ld_max_size
        IN  /\ stride >= 1
            /\ ld_ret.kind = "array"
            /\ Len(ld_out) = 1 /\ ld_out[1].step = stride
            /\ ld_ret.shape[1] = CeilDiv(n, stride)
            /\ IF ld_is_vector
               THEN /\ DOMAIN ld_ret.at = {k \in Idx(n) : k * stride < n}
                    /\ \A k \in DOMAIN ld_ret.at :
                          ld_ret.at[k] = ld_file.at[k * stride]
               ELSE LET m == ld_file.shape[2]
                    IN  /\ ld_ret.shape[2] = CeilDiv(m, stride)
                        /\ DOMAIN ld_ret.at =
                             {p \in Idx(n) \X Idx(m) :
                                 p[1] * stride < n /\ p[2] * stride < m}
                        /\ \A p \in DOMAIN ld_ret.at :
                              ld_ret.at[p] =
                                  ld_file.at[<<p[1] * stride, p[2] * stride>>]

\* a matrix of 5 rows loaded with max_size 2: stride 2, 5 is no multiple of it
C1_Witness ==
    /\ LoadedDataset /\ ~ld_is_vector
    /\ ld_file.shape = <<5, 5>> /\ ld_max_size = 2
    /\ ld_ret.shape = <<3, 3>>

\* C2: when the leading dimension n is at most max_size the loader returns the
\* dataset unchanged: same shape, same value at every index.
C2_SmallIsIdentity ==
    (LoadedDataset /\ ld_file.shape[1] <= ld_max_size) =>
        /\ ld_ret.kind = "array"
        /\ ld_ret.shape = ld_file.shape
        /\ ld_ret.at = ld_file.at
        /\ ld_out = <<>>

C2_Witness ==
    /\ LoadedDataset /\ ~ld_is_vector
    /\ ld_file.shape = <<4, 4>> /\ ld_max_size = 4
    /\ ld_ret.shape = <<4, 4>>

\* C3: max_size bounds the result: the returned array has at most max_size
\* elements along each axis, and a subsampling announced as n -> max_size
\* returns max_size elements at most.
\* (Stated for vectors and square matrices, the datasets of the data model.)
C3_WithinBudget ==
    (/\ LoadedDataset /\ ld_ret.kind = "array"
     /\ (ld_file.rank = 2 => ld_file.shape[1] = ld_file.shape[2])) =>
        \A a \in DOMAIN ld_ret.shape : ld_ret.shape[a] <= ld_max_size

(***************************************************************************)
(* create_test_hdf5 (create_test_hdf5.py 10-100).                          *)
(*                                                                         *)
(* block_size is 1000 and the bandwidth 50 in the source; the model keeps  *)
(* the code and scales the two numbers down (bandwidth < block_size, as in *)
(* the source) so that matrices of several blocks can be enumerated.       *)
(*                                                                         *)
(* Matrix entries are kept symbolically:                                   *)
(*   <<"zero", 0>>  0.0                                                    *)
(*   <<"diag", r>>  7e10 * (1.0 + 0.1 * sin(r / 1000.0)), which lies in    *)
(*                  [6.3e10, 7.7e10] and is therefore positive             *)
(*   <<"band", d>>  -7e10 * exp(-d / 10.0) * 0.3, negative for every d     *)
(*                  within the bandwidth                                   *)
(*   <<"mass", 0>>  0.054                                                  *)
(***************************************************************************)
block_size == 4   \* create_test_hdf5.py 36: block_size = 1000
bandwidth == 2    \* create_test_hdf5.py 53: bandwidth = 50
MaxSize == 13     \* size ranges over 1..MaxSize

Zero == <<"zero", 0>>
DiagValue(r) == <<"diag", r>>
BandValue(dist) == <<"band", dist>>
MassValue == <<"mass", 0>>
IsNonzero(x) == x # Zero

Abs(x) == IF x < 0 THEN -x ELSE x
Min(a, b) == IF a < b THEN a ELSE b

\* np.zeros((rows, cols))
Zeros(rows, cols) == [p \in Idx(rows) \X Idx(cols) |-> Zero]

\* dataset[r0:r1, c0:c1] = block
WriteRegion(ds, r0, c0, block) ==
    [p \in DOMAIN ds |->
        IF <<p[1] - r0, p[2] - c0>> \in DOMAIN block
        THEN block[<<p[1] - r0, p[2] - c0>>]
        ELSE ds[p]]

\* line 53: the test deciding whether the entry of global row r, column c is
\* filled
InBandOneSided(r, c) == r - c <= bandwidth

InBand(r, c) == Abs(r - c) <= bandwidth

\* lines 43-55: the block of rows i..end_i-1 and columns j..end_j-1
StiffBlockValues(i, j, end_i, end_j) ==
    [p \in Idx(end_i - i) \X Idx(end_j - j) |->
        IF Abs(i - j) < block_size * 2
        THEN IF i = j
             THEN IF p[1] = p[2] THEN DiagValue(i + p[1]) ELSE Zero
             ELSE IF Abs(i - j) <= block_size
                  THEN IF InBand(i + p[1], j + p[2])
                       THEN BandValue(Abs((i + p[1]) - (j + p[2])))
                       ELSE Zero
                  ELSE Zero
        ELSE Zero]

\* line 74: the column of the strip that row k of the strip has its mass in
MassColumnNoOffset(i, k) == k

MassColumn(i, k) == i + k

\* lines 73-74: the strip of rows i..end_i-1, all `n` columns
MassStripValues(i, end_i, n) ==
    [p \in Idx(end_i - i) \X Idx(n) |->
        IF p[2] = MassColumn(i, p[1]) THEN MassValue ELSE Zero]

InitGen ==
    /\ size \in 1 .. MaxSize
    /\ g_pc = "stiff"
    /\ g_i = 0 /\ g_j = 0
    /\ stiff_dataset = Zeros(size, size)   \* 26-33: created, nothing written
    /\ mass_dataset = <<>>                 \* not created yet
    /\ g_block = <<>>
    /\ g_vectors = <<>>
    /\ ld_idle
    /\ m_idle
    /\ r_idle

\* One iteration of the inner loop, lines 39-57.
StiffBlock ==
    /\ g_pc = "stiff"
    /\ LET end_i == Min(g_i + block_size, size)
           end_j == Min(g_j + block_size, size)
           block == StiffBlockValues(g_i, g_j, end_i, end_j)
       IN  /\ g_block' = << <<end_i - g_i, end_j - g_j>> >> \o
                 (IF Abs(g_i - g_j) < block_size * 2 /\ g_i = g_j
                  THEN << <<end_i - g_i>> >>       \* np.arange(i, end_i)
                  ELSE <<>>)
           /\ stiff_dataset' = WriteRegion(stiff_dataset, g_i, g_j, block)
    /\ IF g_j + block_size < size
       THEN /\ g_j' = g_j + block_size
            /\ UNCHANGED <<g_i, g_pc>>
       ELSE /\ g_j' = 0
            /\ IF g_i + block_size < size
               THEN g_i' = g_i + block_size /\ UNCHANGED g_pc
               ELSE g_i' = 0 /\ g_pc' = "create_mass"
    /\ UNCHANGED <<size, mass_dataset, g_vectors, ld_vars, m_vars, r_vars>>

\* lines 61-68
CreateMass ==
    /\ g_pc = "create_mass"
    /\ mass_dataset' = Zeros(size, size)
    /\ g_pc' = "mass"
    /\ g_block' = <<>>
    /\ UNCHANGED <<size, g_i, g_j, stiff_dataset, g_vectors, ld_vars,
                   m_vars, r_vars>>

\* One iteration of the loop of lines 71-75.
MassStrip ==
    /\ g_pc = "mass"
    /\ LET end_i == Min(g_i + block_size, size)
           block == MassStripValues(g_i, end_i, size)
       IN  /\ g_block' = << <<end_i - g_i, size>> >>
           /\ mass_dataset' = WriteRegion(mass_dataset, g_i, 0, block)
    /\ IF g_i + block_size < size
       THEN g_i' = g_i + block_size /\ UNCHANGED g_pc
       ELSE g_i' = 0 /\ g_pc' = "vectors"
    /\ UNCHANGED <<size, g_j, stiff_dataset, g_vectors, ld_vars, m_vars, r_vars>>

\* lines 77-92: the force and displacement vectors and the attributes
WriteVectors ==
    /\ g_pc = "vectors"
    /\ g_vectors' = [force |-> size, displacement |-> size]
    /\ g_block' = <<>>
    /\ g_pc' = "done"
    /\ UNCHANGED <<size, g_i, g_j, stiff_dataset, mass_dataset, ld_vars,
                   m_vars, r_vars>>

NextGen == StiffBlock \/ CreateMass \/ MassStrip \/ WriteVectors

SpecGen == InitGen /\ [][NextGen]_vars

(***************************************************************************)
(* Claims about the synthesis (checked under SpecGen).                     *)
(***************************************************************************)
Elements(shape) == IF Len(shape) = 1 THEN shape[1] ELSE shape[1] * shape[2]

\* C4: every buffer allocated while the stiffness and the mass matrix are
\* synthesized holds at most one block, block_size x block_size elements.
C4_OneBlockAtATime ==
    \A b \in DOMAIN g_block : Elements(g_block[b]) <= block_size * block_size

\* C5: the finished stiffness matrix is banded: every off-diagonal entry with
\* |r - c| <= bandwidth holds the band value, in diagonal blocks as well as in
\* the blocks next to them, and every entry with |r - c| > bandwidth is zero.
C5_Banded ==
    g_pc = "done" =>
        \A p \in DOMAIN stiff_dataset :
            /\ (p[1] # p[2] /\ Abs(p[1] - p[2]) <= bandwidth) =>
                   /\ stiff_dataset[p] = BandValue(Abs(p[1] - p[2]))
                   /\ IsNonzero(stiff_dataset[p])
            /\ Abs(p[1] - p[2]) > bandwidth => stiff_dataset[p] = Zero

\* C6: the finished stiffness matrix is symmetric in pattern, for every size:
\* entry (r, c) is nonzero if and only if entry (c, r) is.
C6_SymmetricPattern ==
    g_pc = "done" =>
        \A p \in DOMAIN stiff_dataset :
            IsNonzero(stiff_dataset[p]) <=> IsNonzero(stiff_dataset[<<p[2], p[1]>>])

\* a size that is no multiple of block_size, with a band entry off the
\* diagonal blocks and its mirror
C6_Witness ==
    /\ g_pc = "done"
    /\ size = block_size + 2
    /\ IsNonzero(stiff_dataset[<<block_size - 1, block_size>>])
    /\ IsNonzero(stiff_dataset[<<block_size, block_size - 1>>])
    /\ ~IsNonzero(stiff_dataset[<<0, size - 1>>])

\* C7: the finished mass matrix is the per-DOF mass times the identity, the
\* rows of a final partial block included.
C7_MassDiagonal ==
    g_pc = "done" =>
        /\ DOMAIN mass_dataset = Idx(size) \X Idx(size)
        /\ \A p \in DOMAIN mass_dataset :
              mass_dataset[p] = IF p[1] = p[2] THEN MassValue ELSE Zero

C7_Witness ==
    /\ g_pc = "done"
    /\ size = block_size + 1
    /\ mass_dataset[<<block_size, block_size>>] = MassValue
    /\ mass_dataset[<<block_size, 0>>] = Zero

(***************************************************************************)
(* main() of visualize_results.py (335-411) and the stages it calls.       *)
(*                                                                         *)
(* data maps each key to the shape of the loaded array, <<>> for a key     *)
(* that is not in the dict.  Exceptions are named by their Python class.   *)
(***************************************************************************)
ModalThreshold == 1000   \* visualize_results.py 172: if n > 1000
ModalKeep == 500         \* visualize_results.py 173: idx = slice(0, 500)
ModeCount == 6           \* visualize_results.py 186: eigsh(..., k=6, ...)
DofPerNode == 6          \* visualize_results.py 226: len(force) // 6
QuickMaxSize == 1000     \* visualize_results.py 353: min(1000, args.max_size)

Keys == {"stiffness", "mass", "force", "displacement"}
NoData == [k \in Keys |-> <<>>]
Has(d, key) == d[key] # <<>>

\* The dataset of the file at a key: a square matrix or a vector of the
\* file's dimension for that key, absent when the dimension is -1.
FileEntry(f, key) ==
    IF f[key] < 0 THEN Absent
    ELSE IF key \in {"stiffness", "mass"} THEN LabelMat(f[key], f[key])
    ELSE LabelVec(f[key])

ShapeOf(ret) == IF ret.kind = "array" THEN ret.shape ELSE <<>>

\* lines 91-113 of load_hdf5_data: the four loader calls, in order
LoadAll(f, max_size) ==
    LET k == load_dataset_with_subsampling(FileEntry(f, "stiffness"),
                 "/matrices/stiffness", max_size, FALSE)
        m == load_dataset_with_subsampling(FileEntry(f, "mass"),
                 "/matrices/mass", max_size, FALSE)
        fo == load_dataset_with_subsampling(FileEntry(f, "force"),
                 "/vectors/force", max_size, TRUE)
        u == load_dataset_with_subsampling(FileEntry(f, "displacement"),
                 "/results/displacement", max_size, TRUE)
        loaded(key, r) ==
            IF r.ret.kind = "array"
            THEN << [msg |-> "loaded", key |-> key, shape |-> r.ret.shape] >>
            ELSE <<>>
    IN  [data |-> [stiffness |-> ShapeOf(k.ret), mass |-> ShapeOf(m.ret),
                   force |-> ShapeOf(fo.ret), displacement |-> ShapeOf(u.ret)],
         out |-> k.out \o loaded("stiffness", k) \o m.out \o loaded("mass", m)
                 \o fo.out \o loaded("force", fo)
                 \o u.out \o loaded("displacement", u)]

\* lines 352-356
EffectiveMaxSize(a) ==
    IF a.quick THEN Min(QuickMaxSize, a.max_size) ELSE a.max_size

\* generate_report (283-333): what it prints and the exception it raises, if
\* any.  np.min / np.max of an empty array and np.dot of arrays whose
\* dimensions differ raise ValueError.
Say(m) == << [msg |-> m] >>

ReportStiffness(d) ==
    IF ~Has(d, "stiffness") THEN [out |-> <<>>, raised |-> "none"]
    ELSE IF Min(d.stiffness[1], d.stiffness[2]) = 0
    THEN [out |-> <<>>, raised |-> "ValueError"]
    ELSE [out |-> Say("report_stiffness"), raised |-> "none"]

ReportMass(d) == IF Has(d, "mass") THEN Say("report_mass") ELSE <<>>

\* line 324: the condition under which the strain energy is computed
EnergyRequested(d) == Has(d, "stiffness")

\* line 325: np.dot(U, np.dot(K, U))
EnergyRaises(d) ==
    \/ d.stiffness[2] # d.displacement[1]
    \/ d.stiffness[1] # d.displacement[1]

ReportResponse(d) ==
    IF ~(Has(d, "force") /\ Has(d, "displacement"))
    THEN [out |-> <<>>, raised |-> "none"]
    ELSE IF d.displacement[1] = 0
    THEN [out |-> <<>>, raised |-> "ValueError"]
    ELSE IF EnergyRequested(d) /\ EnergyRaises(d)
    THEN [out |-> Say("report_response"), raised |-> "ValueError"]
    ELSE [out |-> Say("report_response")
                  \o (IF EnergyRequested(d) THEN Say("report_energy") ELSE <<>>)
                  \o Say("report_limit_check"),
          raised |-> "none"]

generate_report(d) ==
    LET k == ReportStiffness(d)
        r == ReportResponse(d)
    IN  IF k.raised # "none" THEN k
        ELSE [out |-> k.out \o ReportMass(d) \o ReportMass(d) \o r.out,
              raised |-> r.raised]

\* plot_response_analysis (222-281).  Number of elements of v[off::6][:n_nodes]
ComponentLen(len, off, n_nodes) ==
    Min(IF len > off THEN ((len - off - 1) \div DofPerNode) + 1 ELSE 0, n_nodes)

\* ax.plot(x, y) with arrays of different lengths, the sum of arrays of
\* different lengths and np.max of an empty array raise ValueError.
plot_response_analysis(force, displacement) ==
    LET n_nodes == force[1] \div DofPerNode
        disp_x == ComponentLen(displacement[1], 0, n_nodes)
        disp_y == IF displacement[1] > 1
                  THEN ComponentLen(displacement[1], 1, n_nodes) ELSE disp_x
        disp_z == IF displacement[1] > 2
                  THEN ComponentLen(displacement[1], 2, n_nodes) ELSE disp_x
    IN  IF disp_x # n_nodes \/ disp_y # n_nodes \/ disp_z # n_nodes \/ n_nodes = 0
        THEN [out |-> <<>>, raised |-> "ValueError"]
        ELSE [out |-> Say("response_saved"), raised |-> "none"]

\* plot_eigenvalue_analysis 170-178: the matrices handed to the solver
LeadingBlock(shape) == <<Min(shape[1], ModalKeep), Min(shape[2], ModalKeep)>>

ModalInputsStiffnessOnly(stiffness, mass) ==
    IF stiffness[1] > ModalThreshold
    THEN [K |-> LeadingBlock(stiffness), M |-> mass]
    ELSE [K |-> stiffness, M |-> mass]

ModalInputs(stiffness, mass) ==
    IF stiffness[1] > ModalThreshold
    THEN [K |-> LeadingBlock(stiffness), M |-> LeadingBlock(mass)]
    ELSE [K |-> stiffness, M |-> mass]

\* What eigsh(K_sparse, k=6, M=M_sparse, which='SM') of scipy can do (186):
\* ValueError for an M of another shape than K, TypeError for sparse K with
\* k >= N, else the eigenpairs or ArpackNoConvergence / a singular-factor
\* error, both RuntimeError.
EigshOutcomes(in) ==
    IF in.K # in.M THEN {"ValueError"}
    ELSE IF in.K[1] <= ModeCount THEN {"TypeError"}
    ELSE {"none", "RuntimeError"}

\* line 219: except (ImportError, ValueError, RuntimeError)
ModalCaught == {"ImportError", "ValueError", "RuntimeError"}

\* plt.savefig of a stage writes its file or raises OSError
SavefigOutcomes == {"none", "OSError"}

(***************************************************************************)
(* Spec: one run of main().                                                *)
(***************************************************************************)
\* dimensions of the matrices of the input file (-1: no such dataset)
StiffnessDims == {-1, 6, 7, 500, 501, 1000, 1001, 2500}
\* lengths of the vectors of the input file, besides that of the stiffness
VectorDims == {-1, 5, 12}
MaxSizeArgs == {5, 2000}     \* --max-size; 2000 is the default (344)

NoFile == [state |-> "missing", stiffness |-> -1, mass |-> -1, force |-> -1,
           displacement |-> -1]

Files ==
    {[NoFile EXCEPT !.state = st] : st \in {"missing", "unreadable"}} \cup
    UNION {{[state |-> "ok", stiffness |-> k, mass |-> m, force |-> f,
             displacement |-> u] :
               m \in {-1, 7, k}, f \in VectorDims \cup {k},
               u \in VectorDims \cup {k}} : k \in StiffnessDims}

Init ==
    /\ pc = "load"
    /\ args \in [modal : BOOLEAN, no_plots : BOOLEAN, quick : BOOLEAN,
                 max_size : MaxSizeArgs]
    /\ scipy \in BOOLEAN
    /\ file \in Files
    /\ data = NoData
    /\ log = <<>>
    /\ solver_in = <<>>
    /\ ld_idle
    /\ g_idle
    /\ r_idle

\* main 364-367 with load_hdf5_data (70-119): a missing file and an OSError
\* while reading both make load_hdf5_data return None, and main returns.
LoadData ==
    /\ pc = "load"
    /\ IF file.state = "missing"
       THEN /\ log' = log \o Say("error_file_missing")
            /\ pc' = "done"
            /\ UNCHANGED data
       ELSE IF file.state = "unreadable"
       THEN /\ log' = log \o Say("error_reading_hdf5")
            /\ pc' = "done"
            /\ UNCHANGED data
       ELSE LET r == LoadAll(file, EffectiveMaxSize(args))
            IN  /\ data' = r.data
                /\ log' = log \o r.out
                /\ pc' = "report"
    /\ UNCHANGED <<args, scipy, file, solver_in, ld_vars, g_vars, r_vars>>

\* An exception that leaves a stage uncaught leaves main: the run ends with a
\* traceback, and no later stage runs.
Uncaught(exc) ==
    /\ pc' = "crashed"
    /\ log' = log \o << [msg |-> "traceback", exc |-> exc] >>

\* main 369-370
GenerateReport ==
    /\ pc = "report"
    /\ LET r == generate_report(data)
       IN  IF r.raised # "none"
           THEN /\ pc' = "crashed"
                /\ log' = log \o r.out
                              \o << [msg |-> "traceback", exc |-> r.raised] >>
           ELSE /\ log' = log \o r.out
                /\ pc' = IF args.no_plots THEN "done" ELSE "response"
    /\ UNCHANGED <<args, scipy, file, data, solver_in, ld_vars, g_vars, r_vars>>

\* main 372-385
ResponseAnalysis ==
    /\ pc = "response"
    /\ IF Has(data, "force") /\ Has(data, "displacement")
       THEN LET r == plot_response_analysis(data.force, data.displacement)
            IN  IF r.raised # "none"
                THEN Uncaught(r.raised)
                ELSE \E io \in SavefigOutcomes :
                        IF io # "none"
                        THEN Uncaught(io)
                        ELSE log' = log \o r.out /\ pc' = "matrix"
       ELSE pc' = "matrix" /\ UNCHANGED log
    /\ UNCHANGED <<args, scipy, file, data, solver_in, ld_vars, g_vars, r_vars>>

\* main 387-399
MatrixStructure ==
    /\ pc = "matrix"
    /\ IF Has(data, "stiffness") \/ Has(data, "mass")
       THEN \E io \in SavefigOutcomes :
               IF io # "none"
               THEN Uncaught(io)
               ELSE log' = log \o Say("matrix_structure_saved") /\ pc' = "modal"
       ELSE pc' = "modal" /\ UNCHANGED log
    /\ UNCHANGED <<args, scipy, file, data, solver_in, ld_vars, g_vars, r_vars>>

\* main 401-411 with plot_eigenvalue_analysis (166-220): an exception of
\* eigsh, or of plt.savefig (211) after eigsh returned, is caught by the
\* except clause of line 219 or leaves main.
ModalAnalysis ==
    /\ pc = "modal"
    /\ IF args.modal /\ Has(data, "stiffness") /\ Has(data, "mass")
       THEN IF scipy
            THEN LET in == ModalInputs(data.stiffness, data.mass)
                 IN  /\ solver_in' = in
                     /\ \E exc \in EigshOutcomes(in), io \in SavefigOutcomes :
                           LET raised == IF exc # "none" THEN exc ELSE io
                           IN  IF raised = "none"
                               THEN /\ log' = log \o Say("modal_analysis")
                                                  \o Say("modal_saved")
                                                  \o Say("completed")
                                    /\ pc' = "done"
                               ELSE IF raised \in ModalCaught
                               THEN /\ log' = log \o Say("modal_analysis")
                                         \o << [msg |-> "modal_error",
                                                exc |-> raised] >>
                                         \o Say("completed")
                                    /\ pc' = "done"
                               ELSE /\ log' = log \o Say("modal_analysis")
                                         \o << [msg |-> "traceback",
                                                exc |-> raised] >>
                                    /\ pc' = "crashed"
            ELSE /\ log' = log \o Say("modal_skipped_no_scipy")
                               \o Say("completed")
                 /\ pc' = "done"
                 /\ UNCHANGED solver_in
       ELSE /\ log' = log \o Say("completed")
            /\ pc' = "done"
            /\ UNCHANGED solver_in
    /\ UNCHANGED <<args, scipy, file, data, ld_vars, g_vars, r_vars>>

Next ==
    \/ LoadData
    \/ GenerateReport
    \/ ResponseAnalysis
    \/ MatrixStructure
    \/ ModalAnalysis

Spec == Init /\ [][Next]_vars

(***************************************************************************)
(* Claims about the analysis run (checked under Spec).                     *)
(***************************************************************************)
Printed(m) == \E k \in DOMAIN log : log[k].msg = m

SolverCalled == solver_in # <<>>

\* C8 as stated: whenever the dimension n of the loaded stiffness matrix
\* exceeds 500, K and M are both cut to the leading 500 x 500 block, so the
\* solver never gets more than 500 x 500 and K and M have one shape; for
\* n <= 500 both are passed whole.  (K and M of one dimension, as in the
\* data model.)
C8_TruncatedAbove500 ==
    (SolverCalled /\ data.stiffness = data.mass) =>
        LET n == data.stiffness[1]
        IN  /\ n > 500 => (solver_in.K = <<500, 500>> /\ solver_in.M = <<500, 500>>)
            /\ n <= 500 => (solver_in.K = data.stiffness /\ solver_in.M = data.mass)
            /\ solver_in.K[1] <= 500 /\ solver_in.K[2] <= 500
            /\ solver_in.K = solver_in.M

\* C8 amended: the truncation to the leading 500 x 500 block happens when n
\* exceeds 1000; for n <= 1000 both matrices are passed whole, so the solver
\* gets at most 1000 x 1000, and K and M always have one shape.
C8_TruncatedAbove1000 ==
    (SolverCalled /\ data.stiffness = data.mass) =>
        LET n == data.stiffness[1]
        IN  /\ n > 1000 => (solver_in.K = <<500, 500>> /\ solver_in.M = <<500, 500>>)
            /\ n <= 1000 => (solver_in.K = data.stiffness /\ solver_in.M = data.mass)
            /\ solver_in.K[1] <= 1000 /\ solver_in.K[2] <= 1000
            /\ solver_in.K = solver_in.M

C8_Witness ==
    /\ SolverCalled
    /\ data.stiffness = <<1001, 1001>> /\ data.mass = <<1001, 1001>>
    /\ solver_in.K = <<500, 500>> /\ solver_in.M = <<500, 500>>

\* C9: once the data is loaded no failure of a stage ends the run: every
\* exception is caught at the boundary of its stage, so the run never ends
\* with an exception leaving main, and every run on a readable file reaches
\* the end of main.
C9_StageFailuresContained ==
    /\ pc # "crashed"
    /\ ~Printed("traceback")

\* C10: with force and displacement loaded, the report prints the strain
\* energy exactly when a stiffness matrix of the displacement's dimension is
\* loaded, and prints the displacement-limit check in every case.
ReportReturnedOrRaised == file.state = "ok" /\ pc \notin {"load", "report"}

C10_EnergyOnlyWhenConformant ==
    (/\ ReportReturnedOrRaised
     /\ Has(data, "force") /\ Has(data, "displacement")) =>
        /\ Printed("report_limit_check")
        /\ Printed("report_energy") <=>
               (Has(data, "stiffness")
                /\ data.stiffness[1] = data.displacement[1])

\* C11: no approximation is applied silently.  A dataset that the loader
\* subsampled has its notice in the log before the message reporting it
\* loaded, and a run in which the modal solver cut K or M to a leading block
\* has a notice of the truncation in the log before the modal results.
PathOf(key) ==
    CASE key = "stiffness" -> "/matrices/stiffness"
      [] key = "mass" -> "/matrices/mass"
      [] key = "force" -> "/vectors/force"
      [] key = "displacement" -> "/results/displacement"

Subsampled(key) == Has(data, key) /\ file[key] > EffectiveMaxSize(args)

\* (K and M of one dimension, as in the data model.)
Truncated ==
    /\ SolverCalled /\ data.stiffness = data.mass
    /\ solver_in.K # data.stiffness

SubsamplingAnnounced ==
    \A key \in Keys :
        Subsampled(key) =>
            \E i \in DOMAIN log :
                /\ log[i].msg = "subsampling" /\ log[i].path = PathOf(key)
                /\ \A j \in DOMAIN log :
                      (log[j].msg = "loaded" /\ log[j].key = key) => i < j

TruncationAnnounced ==
    Truncated =>
        \E i \in DOMAIN log :
            /\ log[i].msg = "modal_truncation"
            /\ \A j \in DOMAIN log :
                  log[j].msg \in {"modal_saved", "modal_error"} => i < j

C11_NoSilentApproximation == SubsamplingAnnounced /\ TruncationAnnounced

(***************************************************************************)
(* SpecResp: one call of plot_response_analysis (222-281) on vectors with  *)
(* contents.  Element k of a vector holds k + 1, so that the elements      *)
(* differ and none is zero.  The magnitude sqrt(x^2 + y^2 + z^2) is kept   *)
(* as its square, x^2 + y^2 + z^2: the square root is one-to-one on what   *)
(* it is applied to.                                                       *)
(***************************************************************************)
MaxVecLen == 13   \* force and displacement have at most MaxVecLen elements

CountVec(n) == Array(<<n>>, [k \in Idx(n) |-> k + 1])

\* v[off::6][:n_nodes]
Component(v, off, n_nodes) ==
    LET len == ComponentLen(v.shape[1], off, n_nodes)
    IN  Array(<<len>>, [m \in Idx(len) |-> v.at[off + m * DofPerNode]])

\* np.zeros_like(a)
ZerosLike(a) == Array(a.shape, [m \in Idx(a.shape[1]) |-> 0])

Square(x) == x * x

\* lines 226-271: the arrays computed, or the first exception raised.
\* ax.plot(node_positions, y) raises ValueError for a y of another length
\* (238-242), np.max of an empty disp_magnitude raises ValueError (271).
response_arrays(force, displacement) ==
    LET n_nodes == force.shape[1] \div DofPerNode
        len == displacement.shape[1]
        disp_x == Component(displacement, 0, n_nodes)
        disp_y == IF len > 1 THEN Component(displacement, 1, n_nodes)
                  ELSE ZerosLike(disp_x)
        disp_z == IF len > 2 THEN Component(displacement, 2, n_nodes)
                  ELSE ZerosLike(disp_x)
    IN  IF \/ disp_x.shape[1] # n_nodes
           \/ (len > 1 /\ disp_y.shape[1] # n_nodes)
           \/ (len > 2 /\ disp_z.shape[1] # n_nodes)
           \/ n_nodes = 0
        THEN [raised |-> "ValueError"]
        ELSE [raised |-> "none", n_nodes |-> n_nodes,
              disp_x |-> disp_x, disp_y |-> disp_y, disp_z |-> disp_z,
              disp_magnitude |->
                  Array(<<n_nodes>>,
                        [m \in Idx(n_nodes) |->
                            Square(disp_x.at[m]) + Square(disp_y.at[m])
                                + Square(disp_z.at[m])])]

InitResp ==
    /\ r_pc = "call"
    /\ r_force \in {CountVec(n) : n \in 0 .. MaxVecLen}
    /\ r_displacement \in {CountVec(n) : n \in 0 .. MaxVecLen}
    /\ r_ret = <<>>
    /\ ld_idle
    /\ g_idle
    /\ m_idle

ResponseCall ==
    /\ r_pc = "call"
    /\ r_ret' = response_arrays(r_force, r_displacement)
    /\ r_pc' = "returned"
    /\ UNCHANGED <<r_force, r_displacement, ld_vars, g_vars, m_vars>>

NextResp == ResponseCall

SpecResp == InitResp /\ [][NextResp]_vars

(***************************************************************************)
(* Claims about the response reducer (checked under SpecResp).             *)
(***************************************************************************)
\* component k of the displacement, zero where the vector has no index k
DispOrZero(k) ==
    IF k < r_displacement.shape[1] THEN r_displacement.at[k] ELSE 0

ExpectedNodes == r_force.shape[1] \div 6

ReducedAsClaimed ==
    /\ r_ret.raised = "none"
    /\ r_ret.disp_x.shape = <<ExpectedNodes>>
    /\ r_ret.disp_y.shape = <<ExpectedNodes>>
    /\ r_ret.disp_z.shape = <<ExpectedNodes>>
    /\ r_ret.disp_magnitude.shape = <<ExpectedNodes>>
    /\ \A m \in Idx(ExpectedNodes) :
          r_ret.disp_magnitude.at[m] =
              Square(DispOrZero(6 * m)) + Square(DispOrZero(6 * m + 1))
                  + Square(DispOrZero(6 * m + 2))

\* C12: for force and displacement vectors of any lengths, a displacement
\* shorter than the force included, the reducer does not fail and yields
\* len(force) // 6 magnitudes, the m-th being the norm of the displacement
\* components 6m, 6m+1, 6m+2 with zero for a component that does not exist;
\* the X, Y and Z arrays have that length too.  (Stated for at least one
\* node and a displacement that is not empty.)
C12_ReducedForAnyLengths ==
    (/\ r_pc = "returned"
     /\ r_force.shape[1] >= 6 /\ r_displacement.shape[1] >= 1) =>
        ReducedAsClaimed

\* What the reducer does compute: whenever it does not raise, the result is
\* the claimed one.
ReducedWhenNotRaised ==
    (r_pc = "returned" /\ r_ret.raised = "none") => ReducedAsClaimed

ReducedWithZeroFill ==
    /\ r_pc = "returned" /\ r_ret.raised = "none"
    /\ r_force.shape[1] = 6 /\ r_displacement.shape[1] = 1

====
